---- MODULE Spec2Model ----
(***************************************************************************)
(* Points-table administration of a team tournament                        *)
(* (src/components/admin/PointsTableAdmin.tsx).                            *)
(*                                                                         *)
(* The store is the tournament_points table of one tournament together     *)
(* with the tournament_teams rows of that tournament.  The admin component *)
(* keeps a local list, pointsEntries, and every handler reads that list,   *)
(* writes the store and then refreshes the list.  A handler runs with the  *)
(* buttons of the other handlers disabled (saving / loading), so one       *)
(* handler is one step.  Every store call can return an error.             *)
(*                                                                         *)
(* A points row has a one-to-one team (UNIQUE(tournament_id, team_id)), so *)
(* the row id and the team id are the same number here.  A null group_name *)
(* is the empty string (the code only ever tests it with ||), a null       *)
(* position_in_group is 0 (the code never stores 0).                       *)
(***************************************************************************)
EXTENDS Integers, Sequences, FiniteSets, TLC

\* ---------------------------------------------------------------- bounds
MaxEntries == 2       \* points entries drawn as input of a recalculation
MaxRegroup == 3       \* points entries drawn as input of a regrouping
MaxTeams == 2         \* teams that register in the session model
MaxEdits == 1         \* saveEdit calls of one run
MaxAssign == 7        \* entries drawn as input of a group auto-assignment
MaxOps == 2           \* entries drawn as input of the handler runs
MaxNotes == 1         \* change notifications waiting for delivery
MaxLoads == 2         \* loadPointsTable calls of one viewer
MaxView == 1          \* points rows of the tournament the viewer watches
MaxRuns == 2          \* handler runs of one registration dialog
MaxTransactions == 2  \* wallet_transactions rows of the user
MaxUpdates == 2       \* status updates of the user's transactions

\* ------------------------------------------------------ program constants
DefaultNumberOfGroups == 4
MinGroups == 2
MaxGroups == 8
DefaultPosition == 1
NullPos == 0
TeamCapacity == 2
NoGroup == ""
NoMode == ""
DisplayModes == {"grouped", "ungrouped"}
Letters == <<"A", "B", "C", "D", "E", "F", "G", "H">>

\* The values a counter is given: the column default and one above it.
\* Two entries tie or differ on each of points, kills and wins.
Counters == {0, 1}

Min(a, b) == IF a < b THEN a ELSE b

Ids(list) == {list[i].id : i \in 1..Len(list)}

\* Record<string, ...> key of an entry: entry.group_name || 'Ungrouped'
GroupKeyFirstGroup(entry) ==
  IF entry.group_name = NoGroup THEN "Group A" ELSE entry.group_name

GroupKey(entry) == IF entry.group_name = NoGroup THEN "Ungrouped" ELSE entry.group_name

\* ['A',...,'H'].slice(0, n) as labels `Group ${letter}`
GroupLabels(n) == {"Group " \o Letters[i] : i \in 1..Min(IF n < 0 THEN 8 + n ELSE n, 8)}

\* --------------------------------------------------------------- ranking
\* The comparator handed to Array.prototype.sort: negative puts a first.
CmpNoKills(a, b) == b.points - a.points

CmpByStoredPosition(a, b) ==
  IF b.points # a.points THEN b.points - a.points
  ELSE IF b.kills # a.kills THEN b.kills - a.kills
  ELSE a.position - b.position

CmpKillsFirst(a, b) ==
  IF b.kills # a.kills THEN b.kills - a.kills ELSE b.points - a.points

Cmp(a, b) ==
  IF b.points # a.points THEN b.points - a.points ELSE b.kills - a.kills

\* One step of a stable sort: e goes behind every element that does not
\* compare greater than it.
InsertUnstable(e, sorted) ==
  LET k == Cardinality({i \in 1..Len(sorted) : Cmp(sorted[i], e) < 0})
  IN  SubSeq(sorted, 1, k) \o <<e>> \o SubSeq(sorted, k + 1, Len(sorted))

Insert(e, sorted) ==
  LET k == Cardinality({i \in 1..Len(sorted) : Cmp(sorted[i], e) <= 0})
  IN  SubSeq(sorted, 1, k) \o <<e>> \o SubSeq(sorted, k + 1, Len(sorted))

RECURSIVE SortEntries(_)
SortEntries(list) ==
  IF list = <<>> THEN <<>>
  ELSE Insert(list[Len(list)], SortEntries(SubSeq(list, 1, Len(list) - 1)))

\* sortedEntries.findIndex(e => e.id === id)
FindIndex(list, id) ==
  LET hits == {i \in 1..Len(list) : list[i].id = id}
  IN  IF hits = {} THEN -1
      ELSE (CHOOSE i \in hits : \A j \in hits : i <= j) - 1

\* Keys of the reduce accumulator, in insertion order.
RECURSIVE GroupKeys(_)
GroupKeys(list) ==
  IF list = <<>> THEN <<>>
  ELSE LET rest == GroupKeys(SubSeq(list, 1, Len(list) - 1))
           key  == GroupKey(list[Len(list)])
       IN  IF \E i \in 1..Len(rest) : rest[i] = key THEN rest
           ELSE Append(rest, key)

IsInGroup(entry, key) == GroupKey(entry) = key

GroupMembers(list, key) == SelectSeq(list, LAMBDA e : IsInGroup(e, key))

OverallPositionByGroupIndex(sorted, id, index) == index + 1

OverallPositionZeroBased(sorted, id, index) == FindIndex(sorted, id)

OverallPosition(sorted, id, index) == FindIndex(sorted, id) + 1

PositionInGroupOverall(sorted, id, index) == FindIndex(sorted, id) + 1

PositionInGroup(sorted, id, index) == index + 1

\* updates.push({...}) for the entries of one group
GroupUpdates(sorted, members) ==
  [i \in 1..Len(members) |->
     [id |-> members[i].id,
      points |-> members[i].points,
      kills |-> members[i].kills,
      wins |-> members[i].wins,
      group_name |-> members[i].group_name,
      position |-> OverallPosition(sorted, members[i].id, i - 1),
      position_in_group |-> PositionInGroup(sorted, members[i].id, i - 1)]]

RECURSIVE ConcatGroups(_, _, _)
ConcatGroups(sorted, keys, n) ==
  IF n = 0 THEN <<>>
  ELSE ConcatGroups(sorted, keys, n - 1)
         \o GroupUpdates(sorted, GroupMembers(sorted, keys[n]))

\* The supportsGrouping branch of autoCalculatePositions.
GroupedUpdates(list) ==
  LET sorted == SortEntries(list)
      keys   == GroupKeys(sorted)
  IN  ConcatGroups(sorted, keys, Len(keys))

\* The other branch: overall position only (no group columns in the rows).
UngroupedUpdates(list) ==
  LET sorted == SortEntries(list)
  IN  [i \in 1..Len(sorted) |->
         [id |-> sorted[i].id,
          points |-> sorted[i].points,
          kills |-> sorted[i].kills,
          wins |-> sorted[i].wins,
          group_name |-> sorted[i].group_name,
          position |-> OverallPosition(sorted, sorted[i].id, i - 1),
          position_in_group |-> sorted[i].position_in_group]]

CalcUpdates(list, grouping) ==
  IF grouping THEN GroupedUpdates(list) ELSE UngroupedUpdates(list)

CalcColumns(grouping) ==
  IF grouping THEN {"group_name", "position_in_group"} ELSE {}

\* ----------------------------------------------------------------- store
RowOf(e) ==
  [points |-> e.points, kills |-> e.kills, wins |-> e.wins,
   position |-> e.position, group_name |-> e.group_name,
   position_in_group |-> e.position_in_group]

EntryOf(id, row) ==
  [id |-> id, points |-> row.points, kills |-> row.kills, wins |-> row.wins,
   position |-> row.position, group_name |-> row.group_name,
   position_in_group |-> row.position_in_group]

\* The last row of `updates` that carries the id (a later row of one
\* statement would win; the ids of a list are distinct).
LastFor(updates, id) ==
  updates[CHOOSE i \in 1..Len(updates) :
            /\ updates[i].id = id
            /\ \A j \in 1..Len(updates) : updates[j].id = id => j <= i]

\* supabase.from('tournament_points').upsert(rows): insert, on conflict of
\* the primary key update the columns the rows carry.  points, kills, wins
\* and position are in every row; cols names the optional columns.
Upsert(st, updates, cols) ==
  [id \in DOMAIN st \cup Ids(updates) |->
     IF id \notin Ids(updates) THEN st[id]
     ELSE LET u == LastFor(updates, id)
          IN  [points |-> u.points, kills |-> u.kills, wins |-> u.wins,
               position |-> u.position,
               group_name |->
                 IF "group_name" \in cols THEN u.group_name
                 ELSE IF id \in DOMAIN st THEN st[id].group_name ELSE NoGroup,
               position_in_group |->
                 IF "position_in_group" \in cols THEN u.position_in_group
                 ELSE IF id \in DOMAIN st THEN st[id].position_in_group
                 ELSE NullPos]]

\* Injective sequences over a finite set.
Orderings(S) ==
  {q \in [1..Cardinality(S) -> S] : \A i, j \in 1..Cardinality(S) : q[i] = q[j] => i = j}

OrderedArbitrarily(st) ==
  {[i \in 1..Len(q) |-> EntryOf(q[i], st[q[i]])] : q \in Orderings(DOMAIN st)}

\* select('*').order('position', {ascending: true}): the rows by position;
\* rows of equal position come in whatever order the database returns.
OrderedByPosition(st) ==
  {[i \in 1..Len(q) |-> EntryOf(q[i], st[q[i]])] :
     q \in {p \in Orderings(DOMAIN st) :
              \A i, j \in 1..Len(p) : i < j => st[p[i]].position <= st[p[j]].position}}

NewPositionFromOne(existing, idx) == idx + 1

NewPosition(existing, idx) == existing + idx + 1

\* The insert of loadPointsTable for the teams without a row, need being
\* teamsNeedingPoints in the order the teams query returned them.
InsertMissing(st, need) ==
  [id \in DOMAIN st \cup Ids([i \in 1..Len(need) |-> [id |-> need[i]]]) |->
     IF id \in DOMAIN st THEN st[id]
     ELSE LET idx == (CHOOSE i \in 1..Len(need) : need[i] = id) - 1
          IN  [points |-> 0, kills |-> 0, wins |-> 0,
               position |-> NewPosition(Cardinality(DOMAIN st), idx),
               group_name |-> NoGroup, position_in_group |-> NullPos]]

\* Every way loadPointsTable can end from store st with registered teams tm:
\* the store it leaves, the list it sets and whether it hit an error.
LoadOutcomes(st, tm) ==
  LET need == tm \ DOMAIN st
      failed == {[store |-> st, entries |-> <<>>, ok |-> FALSE]}
  IN  IF tm = {} THEN failed \cup {[store |-> st, entries |-> <<>>, ok |-> TRUE]}
      ELSE IF need = {}
      THEN failed \cup {[store |-> st, entries |-> l, ok |-> TRUE] : l \in OrderedByPosition(st)}
      ELSE failed
           \cup UNION {
                  LET st2 == InsertMissing(st, q)
                  IN  {[store |-> st2, entries |-> l, ok |-> TRUE] : l \in OrderedByPosition(st2)}
                      \cup {[store |-> st2, entries |-> <<>>, ok |-> FALSE]}
                  : q \in Orderings(need)}


\* `Group ${groups[index % numberOfGroups]}` with groups = letters.slice(0, n);
\* an index beyond the slice reads undefined.
AssignLabel(index, n) ==
  LET size == IF n < 0 THEN 0 - n ELSE n
      r == index % size
      len == Min(IF n < 0 THEN 8 + n ELSE n, 8)
  IN  IF r < len THEN "Group " \o Letters[r + 1] ELSE "Group undefined"

AssignLabelByPrior(entry, index, n) ==
  IF entry.group_name # NoGroup THEN entry.group_name ELSE AssignLabel(index, n)

AssignedLabel(entry, index, n) == AssignLabel(index, n)

\* pointsEntries.map((entry, index) => ({...entry, group_name: ...}))
AssignUpdates(list, n) ==
  [i \in 1..Len(list) |-> [list[i] EXCEPT !.group_name = AssignedLabel(list[i], i - 1, n)]]

\* ----------------------------------------------------------------- state
VARIABLES
  teams,             \* ids of the tournament_teams rows of the tournament
  store,             \* tournament_points rows of the tournament, by id
  pointsEntries,     \* the component's list (useState)
  supportsGrouping,  \* is5ManTournament || isSquad of the selected tournament
  numberOfGroups,    \* the "# of Groups" input
  edits,             \* saveEdit calls so far
  op,                \* the last handler and how it ended
  before,            \* store and list when the last handler started
  phase,             \* where the session stands in rank / regroup / rank again
  base,              \* the store when the pending regrouping started
  moved,             \* the pending regrouping: entry, group left, group joined
  pointsDisplayMode, \* tournaments.points_display_mode of the tournament
  notes,             \* change notifications of the tournament's rows, undelivered
  vTournament,       \* PointsTable: the tournamentId prop, 0 while not mounted
  vTeamSize,         \* PointsTable: parseTeamSize(teamSize prop)
  vChannel,          \* PointsTable: tournament the subscribed channel filters, 0 if none
  vLoading,          \* PointsTable: loading (useState)
  vDisplayMode,      \* PointsTable: displayMode (useState)
  vEntries,          \* PointsTable: pointsEntries (useState)
  vLoads,            \* PointsTable: the loadPointsTable calls, in starting order
  vModeLoads,        \* PointsTable: tournaments with a loadDisplayMode in flight
  entry_fee,         \* TeamRegistrationDialog: tournament.entry_fee
  walletBalance,     \* TeamRegistrationDialog: the walletBalance prop
  membership,        \* the user's tournament_team_members role in the tournament
  registered,        \* the user has a tournament_registrations row
  current_members,   \* tournament_teams.current_members of the selected team
  feesPaid,          \* payForTournament calls that returned
  runs,              \* handler runs of the dialog so far
  lastRun,           \* the last handler run of the dialog and how it ended
  wallet_transactions, \* the user's wallet_transactions rows
  wallet_balances,   \* wallet_balances rows by user
  statusUpdates      \* status updates of wallet_transactions so far

\* The viewer component and the column it reads its display mode from.
viewerVars == <<pointsDisplayMode, vTournament, vTeamSize, vChannel,
                vLoading, vDisplayMode, vEntries, vLoads, vModeLoads>>

\* The registration dialog with the rows it reads and writes.
registerVars == <<entry_fee, walletBalance, membership, registered,
                  current_members, feesPaid, runs, lastRun>>

walletVars == <<wallet_transactions, wallet_balances, statusUpdates>>

sideVars == <<registerVars, walletVars>>

vars == <<teams, store, pointsEntries, supportsGrouping, numberOfGroups,
          edits, op, before, phase, base, moved, notes, viewerVars, sideVars>>

EmptyStore == [id \in {} |-> 0]

NoMove == [id |-> 0, from |-> "", to |-> ""]

RankedPhases == {"ranked", "reranked", "regrouped"}

PhaseAfter(name, result, loaded) ==
  IF name = "calc" /\ result = "ok" /\ loaded
  THEN IF phase = "moved" THEN "regrouped"
       ELSE IF phase \in RankedPhases THEN "reranked" ELSE "ranked"
  ELSE IF name = "manual" /\ result = "ok" /\ phase \in RankedPhases
  THEN "moved"
  ELSE "none"

\* The bookkeeping of one handler run.
Track(name, result, loaded, mv) ==
  LET next == PhaseAfter(name, result, loaded)
  IN  /\ op' = [name |-> name, result |-> result, loaded |-> loaded]
      /\ before' = [store |-> store, entries |-> pointsEntries]
      /\ phase' = next
      /\ base' = IF next = "moved" THEN store
                 ELSE IF next = "regrouped" THEN base ELSE EmptyStore
      /\ moved' = IF next = "moved" THEN mv
                  ELSE IF next = "regrouped" THEN moved ELSE NoMove

\* The bookkeeping before the first handler run.
GhostInit ==
  /\ edits = 0
  /\ op = [name |-> "none", result |-> "ok", loaded |-> FALSE]
  /\ before = [store |-> EmptyStore, entries |-> <<>>]
  /\ phase = "none"
  /\ base = EmptyStore
  /\ moved = NoMove

\* -------------------------------------------------------------- handlers
\* postgres_changes: the database sends one notification per written row
\* of the tournament to the channel subscribed with its filter, if any.
Emit(rows) ==
  /\ (vChannel = 1) => (notes + rows <= MaxNotes)
  /\ notes' = IF vChannel = 1 THEN notes + rows ELSE notes

\* A team enters the tournament (createTeam inserts the tournament_teams row).
RegisterTeam ==
  /\ Cardinality(teams) < MaxTeams
  /\ teams' = teams \cup {Cardinality(teams) + 1}
  /\ UNCHANGED <<store, pointsEntries, supportsGrouping, numberOfGroups, edits>>
  /\ UNCHANGED viewerVars
  /\ UNCHANGED sideVars
  /\ Emit(0)
  /\ Track("register", "ok", FALSE, NoMove)

LoadPointsTable ==
  \E o \in LoadOutcomes(store, teams) :
    /\ store' = o.store
    /\ pointsEntries' = o.entries
    /\ UNCHANGED <<teams, supportsGrouping, numberOfGroups, edits>>
    /\ UNCHANGED viewerVars
    /\ UNCHANGED sideVars
    /\ Emit(Cardinality(DOMAIN o.store \ DOMAIN store))
    /\ Track("load", IF o.ok THEN "ok" ELSE "error", o.ok, NoMove)

\* parseInt(e.target.value) || 4
ParseGroups(v) == IF v = 0 THEN DefaultNumberOfGroups ELSE v

SetNumberOfGroups(v) ==
  /\ supportsGrouping
  /\ numberOfGroups' = ParseGroups(v)
  /\ UNCHANGED <<teams, store, pointsEntries, supportsGrouping, edits>>
  /\ UNCHANGED viewerVars
  /\ UNCHANGED sideVars
  /\ Emit(0)
  /\ Track("groups", "ok", FALSE, NoMove)

EditedRow(row, p, k, w, pos, g, grouping) ==
  [row EXCEPT !.points = p, !.kills = k, !.wins = w, !.position = pos,
              !.group_name = IF grouping THEN g ELSE @]

SaveEditOptimistic(i, p, k, w, pos, g) ==
  LET id == pointsEntries[i].id
  IN  /\ edits < MaxEdits
      /\ edits' = edits + 1
      /\ UNCHANGED <<teams, supportsGrouping, numberOfGroups>>
      /\ UNCHANGED viewerVars
      /\ UNCHANGED sideVars
      /\ pointsEntries' =
           [pointsEntries EXCEPT ![i] =
              EntryOf(id, EditedRow(RowOf(@), p, k, w, pos, g, supportsGrouping))]
      /\ \/ /\ UNCHANGED store
            /\ Emit(0)
            /\ Track("edit", "error", FALSE, NoMove)
         \/ /\ store' = [store EXCEPT ![id] = EditedRow(@, p, k, w, pos, g, supportsGrouping)]
            /\ Emit(1)
            /\ Track("edit", "ok", FALSE, NoMove)

SaveEdit(i, p, k, w, pos, g) ==
  LET id == pointsEntries[i].id
  IN  /\ edits < MaxEdits
      /\ edits' = edits + 1
      /\ UNCHANGED <<teams, supportsGrouping, numberOfGroups>>
      /\ UNCHANGED viewerVars
      /\ UNCHANGED sideVars
      /\ \/ /\ UNCHANGED <<store, pointsEntries>>
            /\ Emit(0)
            /\ Track("edit", "error", FALSE, NoMove)
         \/ /\ store' = [store EXCEPT ![id] = EditedRow(@, p, k, w, pos, g, supportsGrouping)]
            /\ pointsEntries' =
                 [pointsEntries EXCEPT ![i] =
                    EntryOf(id, EditedRow(RowOf(@), p, k, w, pos, g, supportsGrouping))]
            /\ Emit(1)
            /\ Track("edit", "ok", FALSE, NoMove)

AutoCalculatePositionsUnguarded ==
  /\ UNCHANGED <<teams, supportsGrouping, numberOfGroups, edits>>
  /\ UNCHANGED viewerVars
  /\ UNCHANGED sideVars
  /\ \/ /\ UNCHANGED <<store, pointsEntries>>
        /\ Emit(0)
        /\ Track("calc", "error", FALSE, NoMove)
     \/ \E o \in LoadOutcomes(
                   Upsert(store, CalcUpdates(pointsEntries, supportsGrouping),
                          CalcColumns(supportsGrouping)),
                   teams) :
          /\ store' = o.store
          /\ pointsEntries' = o.entries
          /\ Emit(Len(pointsEntries) + Cardinality(DOMAIN o.store \ DOMAIN store))
          /\ Track("calc", "ok", o.ok, NoMove)

AutoCalculatePositions ==
  /\ UNCHANGED <<teams, supportsGrouping, numberOfGroups, edits>>
  /\ UNCHANGED viewerVars
  /\ UNCHANGED sideVars
  /\ \/ /\ Len(pointsEntries) = 0
        /\ UNCHANGED <<store, pointsEntries>>
        /\ Emit(0)
        /\ Track("calc", "noop", FALSE, NoMove)
     \/ /\ Len(pointsEntries) > 0
        /\ UNCHANGED <<store, pointsEntries>>
        /\ Emit(0)
        /\ Track("calc", "error", FALSE, NoMove)
     \/ /\ Len(pointsEntries) > 0
        /\ \E o \in LoadOutcomes(
                      Upsert(store, CalcUpdates(pointsEntries, supportsGrouping),
                             CalcColumns(supportsGrouping)),
                      teams) :
             /\ store' = o.store
             /\ pointsEntries' = o.entries
             /\ Emit(Len(pointsEntries) + Cardinality(DOMAIN o.store \ DOMAIN store))
             /\ Track("calc", "ok", o.ok, NoMove)

AutoAssignGroups ==
  /\ supportsGrouping
  /\ UNCHANGED <<teams, supportsGrouping, numberOfGroups, edits>>
  /\ UNCHANGED viewerVars
  /\ UNCHANGED sideVars
  /\ \/ /\ Len(pointsEntries) = 0
        /\ UNCHANGED <<store, pointsEntries>>
        /\ Emit(0)
        /\ Track("assign", "noop", FALSE, NoMove)
     \/ /\ Len(pointsEntries) > 0
        /\ UNCHANGED <<store, pointsEntries>>
        /\ Emit(0)
        /\ Track("assign", "error", FALSE, NoMove)
     \/ /\ Len(pointsEntries) > 0
        /\ store' = Upsert(store, AssignUpdates(pointsEntries, numberOfGroups), {"group_name"})
        /\ pointsEntries' = AssignUpdates(pointsEntries, numberOfGroups)
        /\ Emit(Len(pointsEntries))
        /\ Track("assign", "ok", FALSE, NoMove)

ManualRowResetRank(row, g) ==
  [row EXCEPT !.group_name = g, !.position_in_group = NullPos]

ManualRow(row, g) == [row EXCEPT !.group_name = g]

ManuallyAssignTeamToGroup(t, g) ==
  /\ supportsGrouping
  /\ UNCHANGED <<teams, supportsGrouping, numberOfGroups, edits>>
  /\ UNCHANGED viewerVars
  /\ UNCHANGED sideVars
  /\ \/ /\ UNCHANGED <<store, pointsEntries>>
        /\ Emit(0)
        /\ Track("manual", "error", FALSE, NoMove)
     \/ /\ t \in Ids(pointsEntries)
        /\ store' = [store EXCEPT ![t] = ManualRow(@, g)]
        /\ pointsEntries' =
             [i \in 1..Len(pointsEntries) |->
                IF pointsEntries[i].id = t
                THEN EntryOf(t, ManualRow(RowOf(pointsEntries[i]), g))
                ELSE pointsEntries[i]]
        /\ Emit(1)
        /\ Track("manual", "ok", FALSE,
                 [id |-> t, from |-> GroupKey(store[t]), to |-> g])


\* ------------------------------------------------ the viewer, PointsTable
adminVars == <<teams, store, pointsEntries, supportsGrouping, numberOfGroups,
               edits, op, before, phase, base, moved>>

\* What parseTeamSize returns for solo, duo, squad and 5-man tournaments.
TeamSizes == {1, 2, 4, 5}

IsTeamTournament(size) == size > 1

Is5ManTournament(size) == size = 5

IsSquadTournament(size) == size = 4

ViewerSupportsGrouping(size) == Is5ManTournament(size) \/ IsSquadTournament(size)

\* String order of the group keys that occur, as localeCompare and the
\* database collation give it.
LocaleOrder ==
  <<"Group A", "Group B", "Group C", "Group D", "Group E", "Group F",
    "Group G", "Group H", "Group undefined", "Ungrouped", "X", "Y">>

LocaleRank(key) == CHOOSE i \in 1..Len(LocaleOrder) : LocaleOrder[i] = key

LocaleCompareReversed(a, b) == LocaleRank(b) - LocaleRank(a)

LocaleCompare(a, b) == LocaleRank(a) - LocaleRank(b)

\* Array.prototype.sort (stable) under a comparator that is a weak order,
\* cmp[i, j] being what the comparator returns for list[i] and list[j].
StableSort(list, cmp) ==
  LET ahead(i) == {j \in 1..Len(list) :
                     \/ cmp[j, i] < 0
                     \/ cmp[j, i] = 0 /\ j < i}
  IN  [k \in 1..Len(list) |->
         list[CHOOSE i \in 1..Len(list) : Cardinality(ahead(i)) = k - 1]]

\* ORDER BY group_name ASC puts the rows without group last.
DbGroupRank(row) ==
  IF row.group_name = NoGroup THEN Len(LocaleOrder) + 1 ELSE LocaleRank(row.group_name)

OrderKey(row, size) ==
  IF Is5ManTournament(size) THEN DbGroupRank(row) ELSE row.position

\* select('*').order(is5ManTournament ? 'group_name' : 'position'): rows of
\* equal key come in whatever order the database returns.
ViewerFetched(st, size) ==
  {[i \in 1..Len(q) |-> EntryOf(q[i], st[q[i]])] :
     q \in {p \in Orderings(DOMAIN st) :
              \A i, j \in 1..Len(p) :
                i < j => OrderKey(st[p[i]], size) <= OrderKey(st[p[j]], size)}}

\* The comparator of the sort in the viewer's loadPointsTable.
ViewerLoadCmp(a, b) ==
  IF a.group_name # b.group_name
  THEN LocaleCompare(GroupKey(a), GroupKey(b))
  ELSE a.position_in_group - b.position_in_group

ViewerSorted(data, size) ==
  IF ViewerSupportsGrouping(size) /\ \E i \in 1..Len(data) : data[i].group_name # NoGroup
  THEN StableSort(data, [i \in 1..Len(data), j \in 1..Len(data) |->
                           ViewerLoadCmp(data[i], data[j])])
  ELSE data

\* The comparator of the in-group sort at render.
ViewerGroupCmp(a, b) ==
  IF b.points # a.points THEN b.points - a.points
  ELSE IF b.kills # a.kills THEN b.kills - a.kills
  ELSE b.wins - a.wins

HasGroupsAnyKey(list, size) ==
  /\ ViewerSupportsGrouping(size)
  /\ Len(GroupKeys(list)) > 0

HasGroups(list, size) ==
  /\ ViewerSupportsGrouping(size)
  /\ Len(GroupKeys(list)) > 0
  /\ \E i \in 1..Len(list) : list[i].group_name # NoGroup

\* One group card: its name and its rows with the shown position, which is
\* the index in the sorted group plus one.
GroupCard(list, key) ==
  LET members == GroupMembers(list, key)
      rows == StableSort(members, [i \in 1..Len(members), j \in 1..Len(members) |->
                                     ViewerGroupCmp(members[i], members[j])])
  IN  [name |-> key,
       rows |-> [i \in 1..Len(rows) |-> [id |-> rows[i].id, shown |-> i]]]

\* Object.entries(groupedEntries).sort(([a], [b]) => a.localeCompare(b))
GroupCards(list) ==
  LET inserted == GroupKeys(list)
      keys == StableSort(inserted, [i \in 1..Len(inserted), j \in 1..Len(inserted) |->
                                      LocaleCompare(inserted[i], inserted[j])])
  IN  [k \in 1..Len(keys) |-> GroupCard(list, keys[k])]

SingleRows(list) ==
  [i \in 1..Len(list) |-> [id |-> list[i].id, shown |-> list[i].position]]

\* What the component returns: nothing, the loading card, the empty card,
\* the group cards or the single table.
Render(size, loading, mode, list) ==
  IF ~IsTeamTournament(size) THEN [kind |-> "none", groups |-> <<>>, rows |-> <<>>]
  ELSE IF loading THEN [kind |-> "loading", groups |-> <<>>, rows |-> <<>>]
  ELSE IF Len(list) = 0 THEN [kind |-> "empty", groups |-> <<>>, rows |-> <<>>]
  ELSE IF HasGroups(list, size) /\ mode = "grouped"
  THEN [kind |-> "grouped", groups |-> GroupCards(list), rows |-> <<>>]
  ELSE [kind |-> "single", groups |-> <<>>, rows |-> SingleRows(list)]

View == Render(vTeamSize, vLoading, vDisplayMode, vEntries)

\* No PointsTable is on screen: the state a component starts with.
NoViewer ==
  /\ notes = 0
  /\ vTournament = 0
  /\ vTeamSize = 0
  /\ vChannel = 0
  /\ vLoading = TRUE
  /\ vDisplayMode = "grouped"
  /\ vEntries = <<>>
  /\ vLoads = <<>>
  /\ vModeLoads = {}

\* A loadPointsTable call as it starts (setLoading(true), request sent),
\* called by the effect or by the channel's callback.
NewLoad(t, size, by) ==
  [tournament |-> t, size |-> size, by |-> by, state |-> "sent", ok |-> TRUE,
   data |-> <<>>]

\* The effect body for tournament t: both loads and the subscription.
RunEffect(t, size) ==
  IF IsTeamTournament(size)
  THEN /\ Len(vLoads) < MaxLoads
       /\ vLoads' = Append(vLoads, NewLoad(t, size, "effect"))
       /\ vLoading' = TRUE
       /\ vModeLoads' = vModeLoads \cup {t}
       /\ vChannel' = t
  ELSE /\ vChannel' = 0
       /\ UNCHANGED <<vLoads, vLoading, vModeLoads>>

\* Tournament 1 is the one whose rows are the store; 2 is another one,
\* solo or duo.
PropsFit(t, size) ==
  IF t = 1
  THEN IsTeamTournament(size) /\ ViewerSupportsGrouping(size) = supportsGrouping
  ELSE ~ViewerSupportsGrouping(size)

Mount(t, size) ==
  /\ vTournament = 0
  /\ vLoads = <<>>
  /\ PropsFit(t, size)
  /\ vTournament' = t
  /\ vTeamSize' = size
  /\ RunEffect(t, size)
  /\ UNCHANGED <<vDisplayMode, vEntries, pointsDisplayMode, notes>>
  /\ UNCHANGED adminVars
  /\ UNCHANGED sideVars

\* The props change to another tournament: cleanup of the old effect
\* (removeChannel), then the effect again.
ChangeTournament(t, size) ==
  /\ vTournament # 0
  /\ vTournament # t
  /\ PropsFit(t, size)
  /\ vTournament' = t
  /\ vTeamSize' = size
  /\ RunEffect(t, size)
  /\ UNCHANGED <<vDisplayMode, vEntries, pointsDisplayMode, notes>>
  /\ UNCHANGED adminVars
  /\ UNCHANGED sideVars

\* Unmount: the cleanup removes the channel; requests in flight stay in
\* flight but their setState calls no longer reach a component.
Unmount ==
  /\ vTournament # 0
  /\ vTournament' = 0
  /\ vTeamSize' = 0
  /\ vChannel' = 0
  /\ UNCHANGED <<vLoading, vDisplayMode, vEntries, vLoads, vModeLoads,
                 pointsDisplayMode, notes>>
  /\ UNCHANGED adminVars
  /\ UNCHANGED sideVars

\* A notification of the tournament's rows arrives: the channel's callback
\* calls loadPointsTable; without the channel nobody hears it.
DeliverNote ==
  /\ notes > 0
  /\ notes' = notes - 1
  /\ IF vChannel = 1
     THEN /\ Len(vLoads) < MaxLoads
          /\ vLoads' = Append(vLoads, NewLoad(1, vTeamSize, "channel"))
          /\ vLoading' = TRUE
     ELSE UNCHANGED <<vLoads, vLoading>>
  /\ UNCHANGED <<vTournament, vTeamSize, vChannel, vDisplayMode, vEntries,
                 vModeLoads, pointsDisplayMode>>
  /\ UNCHANGED adminVars
  /\ UNCHANGED sideVars

\* A row of the other tournament changes while the channel filters it.
OtherTournamentChange ==
  /\ vChannel = 2
  /\ Len(vLoads) < MaxLoads
  /\ vLoads' = Append(vLoads, NewLoad(2, vTeamSize, "channel"))
  /\ vLoading' = TRUE
  /\ UNCHANGED <<vTournament, vTeamSize, vChannel, vDisplayMode, vEntries,
                 vModeLoads, pointsDisplayMode, notes>>
  /\ UNCHANGED adminVars
  /\ UNCHANGED sideVars

\* The other tournament has no points rows yet.
OtherRows == <<>>

\* The database answers the select of load l, or fails.
AnswerLoad(l) ==
  /\ l \in 1..Len(vLoads)
  /\ vLoads[l].state = "sent"
  /\ \/ vLoads' = [vLoads EXCEPT ![l].state = "answered", ![l].ok = FALSE]
     \/ \E d \in IF vLoads[l].tournament = 1
                 THEN ViewerFetched(store, vLoads[l].size) ELSE {OtherRows} :
          vLoads' = [vLoads EXCEPT ![l].state = "answered", ![l].data = d]
  /\ UNCHANGED <<vTournament, vTeamSize, vChannel, vLoading, vDisplayMode,
                 vEntries, vModeLoads, pointsDisplayMode, notes>>
  /\ UNCHANGED adminVars
  /\ UNCHANGED sideVars

\* A call that has returned: nothing of it is kept but who made it and
\* that it ended.
DoneLoad(load) ==
  [tournament |-> 0, size |-> 0, by |-> load.by, state |-> "done", ok |-> TRUE,
   data |-> <<>>]

FinishLoadNoFinally(l) ==
  /\ l \in 1..Len(vLoads)
  /\ vLoads[l].state = "answered"
  /\ vLoads' = [vLoads EXCEPT ![l] = DoneLoad(@)]
  /\ IF vTournament # 0
     THEN /\ vEntries' = IF vLoads[l].ok
                         THEN ViewerSorted(vLoads[l].data, vLoads[l].size)
                         ELSE <<>>
          /\ vLoading' = IF vLoads[l].ok THEN FALSE ELSE vLoading
     ELSE UNCHANGED <<vEntries, vLoading>>
  /\ UNCHANGED <<vTournament, vTeamSize, vChannel, vDisplayMode, vModeLoads,
                 pointsDisplayMode, notes>>
  /\ UNCHANGED adminVars
  /\ UNCHANGED sideVars

\* The rest of loadPointsTable once the answer is in: sort and set the
\* list, or empty it on error, and setLoading(false) in either case.
FinishLoad(l) ==
  /\ l \in 1..Len(vLoads)
  /\ vLoads[l].state = "answered"
  /\ vLoads' = [vLoads EXCEPT ![l] = DoneLoad(@)]
  /\ IF vTournament # 0
     THEN /\ vEntries' = IF vLoads[l].ok
                         THEN ViewerSorted(vLoads[l].data, vLoads[l].size)
                         ELSE <<>>
          /\ vLoading' = FALSE
     ELSE UNCHANGED <<vEntries, vLoading>>
  /\ UNCHANGED <<vTournament, vTeamSize, vChannel, vDisplayMode, vModeLoads,
                 pointsDisplayMode, notes>>
  /\ UNCHANGED adminVars
  /\ UNCHANGED sideVars

\* data?.points_display_mode || 'grouped'
ModeOrDefault(m) == IF m = NoMode THEN "grouped" ELSE m

\* loadDisplayMode for tournament t ends: it sets the mode read, or keeps
\* the one it has when the select failed.
FinishModeLoad(t) ==
  /\ t \in vModeLoads
  /\ vModeLoads' = vModeLoads \ {t}
  /\ \/ UNCHANGED vDisplayMode
     \/ /\ vTournament # 0
        /\ \E m \in IF t = 1 THEN {pointsDisplayMode} ELSE DisplayModes \cup {NoMode} :
             vDisplayMode' = ModeOrDefault(m)
  /\ UNCHANGED <<vTournament, vTeamSize, vChannel, vLoading, vEntries, vLoads,
                 pointsDisplayMode, notes>>
  /\ UNCHANGED adminVars
  /\ UNCHANGED sideVars

\* saveEdit in another admin session: one row of the tournament is
\* written, and this session's list does not see it.
RemoteEdit(id, p, g) ==
  /\ id \in DOMAIN store
  /\ store' = [store EXCEPT ![id] =
                 EditedRow(@, p, @.kills, @.wins, @.position, g, supportsGrouping)]
  /\ Emit(1)
  /\ edits < MaxEdits
  /\ edits' = edits + 1
  /\ UNCHANGED <<teams, pointsEntries, supportsGrouping, numberOfGroups,
                 op, before, phase, base, moved>>
  /\ UNCHANGED viewerVars
  /\ UNCHANGED sideVars

\* ------------------------------- team registration, TeamRegistrationDialog
\* tournament.entry_fee as the tournaments the dialog is opened for carry it.
EntryFees == {"Free", "0", "Rs 1", "Rs 2"}

\* !tournament.entry_fee || entry_fee === 'Free' || entry_fee === '0'
IsFree(fee) == fee \in {"", "Free", "0"}

\* parseInt(entry_fee?.replace(/[^0-9]/g, '') || '0')
DigitsAmount(fee) ==
  IF fee = "Rs 1" THEN 1 ELSE IF fee = "Rs 2" THEN 2 ELSE 0

EntryAmount(fee) == IF IsFree(fee) THEN 0 ELSE DigitsAmount(fee)

\* The walletBalance prop: not passed, or the wallet row the page fetched.
NoWalletProp == [defined |-> FALSE, available_balance |-> 0]

WalletProp(n) == [defined |-> TRUE, available_balance |-> n]

\* !walletBalance || walletBalance.available_balance < entryAmount
InsufficientBalance(bal, amount) ==
  \/ ~bal.defined
  \/ bal.available_balance < amount

NoRun == [handler |-> "none", checked |-> FALSE, paid |-> FALSE, result |-> "none"]

\* No dialog is open, the user is in no team and the wallet has no history.
NoDialog ==
  /\ entry_fee = "Free"
  /\ walletBalance = NoWalletProp
  /\ membership = "none"
  /\ registered = FALSE
  /\ current_members = 1
  /\ feesPaid = 0
  /\ runs = 0
  /\ lastRun = NoRun
  /\ wallet_transactions = <<>>
  /\ wallet_balances = <<>>
  /\ statusUpdates = 0

\* tournamentRegistrationService.createTeam: how it can end for a user with
\* membership m and registration r.  The rollback deletes the team and with
\* it the captain's membership, unless the deletes fail (their errors are
\* not read); a registration row inserted before a failed verification
\* stays.
CreateTeamOutcomes(m, r) ==
  IF m # "none"
  THEN {[ok |-> FALSE, membership |-> m, registered |-> r, created |-> FALSE]}
  ELSE {[ok |-> FALSE, membership |-> m, registered |-> r, created |-> FALSE],
        [ok |-> FALSE, membership |-> m, registered |-> TRUE, created |-> FALSE],
        [ok |-> FALSE, membership |-> "captain", registered |-> r, created |-> TRUE],
        [ok |-> FALSE, membership |-> "captain", registered |-> TRUE, created |-> TRUE],
        [ok |-> TRUE, membership |-> "captain", registered |-> TRUE, created |-> TRUE]}

\* tournamentRegistrationService.joinTeam of the selected team with n of its
\* cap places taken.
JoinTeamOutcomes(m, r, n, cap) ==
  IF n >= cap \/ m # "none" \/ r
  THEN {[ok |-> FALSE, membership |-> m, registered |-> r, current_members |-> n]}
  ELSE {[ok |-> FALSE, membership |-> m, registered |-> r, current_members |-> n],
        [ok |-> FALSE, membership |-> m, registered |-> TRUE, current_members |-> n],
        [ok |-> TRUE, membership |-> "member", registered |-> TRUE,
         current_members |-> n + 1]}

\* The part of both handlers before the service call: free, or the balance
\* check and walletService.payForTournament.  go says whether the handler
\* goes on to the service call.
PaymentOutcomes(fee, bal) ==
  IF IsFree(fee)
  THEN {[checked |-> FALSE, paid |-> FALSE, go |-> TRUE, result |-> "free"]}
  ELSE IF InsufficientBalance(bal, EntryAmount(fee))
  THEN {[checked |-> FALSE, paid |-> FALSE, go |-> FALSE, result |-> "insufficient"]}
  ELSE {[checked |-> TRUE, paid |-> FALSE, go |-> FALSE, result |-> "payment failed"],
        [checked |-> TRUE, paid |-> TRUE, go |-> TRUE, result |-> "paid"]}

RunOf(handler, pay, ok) ==
  [handler |-> handler, checked |-> pay.checked, paid |-> pay.paid,
   result |-> IF ~pay.go THEN pay.result ELSE IF ok THEN "ok" ELSE "error"]

HandleCreateTeam ==
  /\ runs < MaxRuns
  /\ runs' = runs + 1
  /\ \E pay \in PaymentOutcomes(entry_fee, walletBalance) :
       /\ feesPaid' = IF pay.paid THEN feesPaid + 1 ELSE feesPaid
       /\ IF pay.go
          THEN \E o \in CreateTeamOutcomes(membership, registered) :
                 /\ membership' = o.membership
                 /\ registered' = o.registered
                 /\ teams' = IF o.created THEN teams \cup {Cardinality(teams) + 1}
                             ELSE teams
                 /\ lastRun' = RunOf("create", pay, o.ok)
          ELSE /\ UNCHANGED <<membership, registered, teams>>
               /\ lastRun' = RunOf("create", pay, FALSE)
  /\ UNCHANGED <<entry_fee, walletBalance, current_members>>
  /\ UNCHANGED walletVars
  /\ UNCHANGED <<store, pointsEntries, supportsGrouping, numberOfGroups, edits,
                 op, before, phase, base, moved, notes>>
  /\ UNCHANGED viewerVars

HandleJoinTeam ==
  /\ runs < MaxRuns
  /\ runs' = runs + 1
  /\ \E pay \in PaymentOutcomes(entry_fee, walletBalance) :
       /\ feesPaid' = IF pay.paid THEN feesPaid + 1 ELSE feesPaid
       /\ IF pay.go
          THEN \E o \in JoinTeamOutcomes(membership, registered, current_members,
                                         TeamCapacity) :
                 /\ membership' = o.membership
                 /\ registered' = o.registered
                 /\ current_members' = o.current_members
                 /\ lastRun' = RunOf("join", pay, o.ok)
          ELSE /\ UNCHANGED <<membership, registered, current_members>>
               /\ lastRun' = RunOf("join", pay, FALSE)
  /\ UNCHANGED <<entry_fee, walletBalance>>
  /\ UNCHANGED walletVars
  /\ UNCHANGED adminVars
  /\ UNCHANGED notes
  /\ UNCHANGED viewerVars

\* Somebody else joins the team the user has selected.
OtherUserJoins ==
  /\ current_members < TeamCapacity
  /\ current_members' = current_members + 1
  /\ UNCHANGED <<entry_fee, walletBalance, membership, registered, feesPaid,
                 runs, lastRun>>
  /\ UNCHANGED walletVars
  /\ UNCHANGED adminVars
  /\ UNCHANGED notes
  /\ UNCHANGED viewerVars

\* The dialog opened for a tournament, with a team of another captain to
\* join and the wallet row the page passes, if any.
InitRegister ==
  /\ teams = {}
  /\ store = EmptyStore
  /\ pointsEntries = <<>>
  /\ supportsGrouping = FALSE
  /\ numberOfGroups = DefaultNumberOfGroups
  /\ GhostInit
  /\ pointsDisplayMode = "grouped"
  /\ NoViewer
  /\ entry_fee \in EntryFees
  /\ walletBalance \in {NoWalletProp} \cup {WalletProp(n) : n \in 0..2}
  /\ membership = "none"
  /\ registered = FALSE
  /\ current_members \in 1..TeamCapacity
  /\ feesPaid = 0
  /\ runs = 0
  /\ lastRun = NoRun
  /\ wallet_transactions = <<>>
  /\ wallet_balances = <<>>
  /\ statusUpdates = 0

NextRegister ==
  \/ HandleCreateTeam
  \/ HandleJoinTeam
  \/ OtherUserJoins

SpecRegister == InitRegister /\ [][NextRegister]_vars

\* ------------------------------------- the wallet ledger and its trigger
WalletUser == "user"

TransactionTypes == {"deposit", "withdrawal"}

Statuses == {"pending", "approved", "rejected"}

Amounts == {1, 2}

ZeroBalance ==
  [available_balance |-> 0, pending_balance |-> 0, total_deposited |-> 0,
   total_withdrawn |-> 0]

\* update_wallet_balance() for TG_OP = 'INSERT' on the balance row bal.
BalanceAfterInsert(bal, new) ==
  IF new.transaction_type = "deposit"
  THEN IF new.status = "pending"
       THEN [bal EXCEPT !.pending_balance = @ + new.amount]
       ELSE IF new.status = "approved"
       THEN [bal EXCEPT !.available_balance = @ + new.amount,
                        !.total_deposited = @ + new.amount]
       ELSE bal
  ELSE IF new.transaction_type = "withdrawal" /\ new.status = "approved"
  THEN [bal EXCEPT !.available_balance = @ - new.amount,
                   !.total_withdrawn = @ + new.amount]
  ELSE bal

\* update_wallet_balance() for TG_OP = 'UPDATE'.
BalanceAfterUpdate(bal, old, new) ==
  IF old.status = new.status THEN bal
  ELSE IF new.transaction_type = "deposit"
  THEN IF old.status = "pending" /\ new.status = "approved"
       THEN [bal EXCEPT !.pending_balance = @ - new.amount,
                        !.available_balance = @ + new.amount,
                        !.total_deposited = @ + new.amount]
       ELSE IF old.status = "pending" /\ new.status = "rejected"
       THEN [bal EXCEPT !.pending_balance = @ - new.amount]
       ELSE bal
  ELSE IF new.transaction_type = "withdrawal"
  THEN IF old.status = "pending" /\ new.status = "approved"
       THEN [bal EXCEPT !.available_balance = @ - new.amount,
                        !.total_withdrawn = @ + new.amount]
       ELSE bal
  ELSE bal

\* SELECT ... INTO current_balance; IF NOT FOUND THEN INSERT the zero row.
EnsureBalance(balances, user) ==
  IF user \in DOMAIN balances THEN balances
  ELSE [u \in DOMAIN balances \cup {user} |->
          IF u = user THEN ZeroBalance ELSE balances[u]]

RECURSIVE SumAmounts(_, _, _)
\* COALESCE(SUM(amount), 0) over the transactions of a type and status
SumAmounts(txs, type, status) ==
  IF txs = <<>> THEN 0
  ELSE LET t == txs[Len(txs)]
           rest == SumAmounts(SubSeq(txs, 1, Len(txs) - 1), type, status)
       IN  IF t.transaction_type = type /\ t.status = status
           THEN rest + t.amount ELSE rest

\* The row the recalculation block sets for a user with transactions txs.
Recalculated(txs) ==
  LET approved_deposits == SumAmounts(txs, "deposit", "approved")
      pending_deposits == SumAmounts(txs, "deposit", "pending")
      approved_withdrawals == SumAmounts(txs, "withdrawal", "approved")
  IN  [available_balance |-> approved_deposits - approved_withdrawals,
       pending_balance |-> pending_deposits,
       total_deposited |-> approved_deposits,
       total_withdrawn |-> approved_withdrawals]

\* INSERT INTO wallet_transactions, the trigger firing after it.
InsertTransaction(type, status, amount) ==
  LET new == [transaction_type |-> type, status |-> status, amount |-> amount]
      found == EnsureBalance(wallet_balances, WalletUser)
  IN  /\ Len(wallet_transactions) < MaxTransactions
      /\ wallet_transactions' = Append(wallet_transactions, new)
      /\ UNCHANGED statusUpdates
      /\ wallet_balances' =
           [found EXCEPT ![WalletUser] = BalanceAfterInsert(@, new)]
      /\ UNCHANGED registerVars
      /\ UNCHANGED adminVars
      /\ UNCHANGED notes
      /\ UNCHANGED viewerVars

\* UPDATE wallet_transactions SET status = ... of the i-th transaction.
UpdateStatus(i, status) ==
  LET old == wallet_transactions[i]
      new == [old EXCEPT !.status = status]
      found == EnsureBalance(wallet_balances, WalletUser)
  IN  /\ i \in 1..Len(wallet_transactions)
      /\ statusUpdates < MaxUpdates
      /\ statusUpdates' = statusUpdates + 1
      /\ wallet_transactions' = [wallet_transactions EXCEPT ![i] = new]
      /\ wallet_balances' =
           [found EXCEPT ![WalletUser] = BalanceAfterUpdate(@, old, new)]
      /\ UNCHANGED registerVars
      /\ UNCHANGED adminVars
      /\ UNCHANGED notes
      /\ UNCHANGED viewerVars

\* A user without wallet history; transactions are inserted and their status
\* is set by the user's requests and the admin's decisions.
InitWallet ==
  /\ teams = {}
  /\ store = EmptyStore
  /\ pointsEntries = <<>>
  /\ supportsGrouping = FALSE
  /\ numberOfGroups = DefaultNumberOfGroups
  /\ GhostInit
  /\ pointsDisplayMode = "grouped"
  /\ NoViewer
  /\ NoDialog

NextWallet ==
  \/ \E type \in TransactionTypes, status \in Statuses, amount \in Amounts :
       InsertTransaction(type, status, amount)
  \/ \E i \in 1..MaxTransactions, status \in Statuses : UpdateStatus(i, status)

SpecWallet == InitWallet /\ [][NextWallet]_vars

\* ----------------------------------------------------- the admin session
\* The component mounted on a tournament nobody has entered yet.
Init ==
  /\ teams = {}
  /\ store = EmptyStore
  /\ pointsEntries = <<>>
  /\ supportsGrouping \in BOOLEAN
  /\ numberOfGroups = DefaultNumberOfGroups
  /\ GhostInit
  /\ pointsDisplayMode = "grouped"
  /\ NoViewer
  /\ NoDialog

GroupCountInputs == {1, MinGroups, MaxGroups + 1}

\* The labels the admin picks from a select: the offered options, here
\* among the first two.
LabelInputs(n) == GroupLabels(n) \cap GroupLabels(MinGroups)

\* The edit form's group: an offered option, none, or the one startEdit
\* copied from the entry.
EditGroups(entry) == LabelInputs(numberOfGroups) \cup {NoGroup, entry.group_name}

Next ==
  \/ RegisterTeam
  \/ LoadPointsTable
  \/ \E v \in GroupCountInputs : SetNumberOfGroups(v)
  \/ \E i \in 1..Len(pointsEntries), p \in Counters, k \in Counters,
        w \in Counters, pos \in 1..MaxTeams :
       \E g \in EditGroups(pointsEntries[i]) : SaveEdit(i, p, k, w, pos, g)
  \/ AutoCalculatePositions
  \/ AutoAssignGroups
  \/ \E t \in DOMAIN store, g \in LabelInputs(numberOfGroups) :
       ManuallyAssignTeamToGroup(t, g)

Spec == Init /\ [][Next]_vars

\* -------------------------------------- recalculation over drawn entries
\* Drawn entries are unlabelled or in one of the first two groups.
InputLabels == GroupLabels(MinGroups) \cup {NoGroup}

InputRows(grouping) ==
  [points : Counters, kills : Counters, wins : Counters,
   position : {DefaultPosition},
   group_name : IF grouping THEN InputLabels ELSE {NoGroup},
   position_in_group : {NullPos}]

\* The list as loaded for a tournament whose rows were entered and grouped
\* but never ranked: every counter and label combination, positions at the
\* column default.
InitRank ==
  /\ supportsGrouping \in BOOLEAN
  /\ \E n \in 0..MaxEntries :
       /\ teams = 1..n
       /\ store \in [1..n -> InputRows(supportsGrouping)]
  /\ pointsEntries = [i \in 1..Cardinality(teams) |-> EntryOf(i, store[i])]
  /\ numberOfGroups = DefaultNumberOfGroups
  /\ GhostInit
  /\ pointsDisplayMode = "grouped"
  /\ NoViewer
  /\ NoDialog

NextRank == AutoCalculatePositions

SpecRank == InitRank /\ [][NextRank]_vars

\* ------------------------------- rank, regroup, rank again, drawn entries
\* The list of a grouping tournament before its first recalculation, the
\* admin having typed the smallest group count.  Kills and wins are left at
\* the column default: entries tie or differ on points.
InitRegroup ==
  /\ supportsGrouping = TRUE
  /\ \E n \in 0..MaxRegroup :
       /\ teams = 1..n
       /\ store \in [1..n -> [points : Counters, kills : {0},
                              wins : {0}, position : {DefaultPosition},
                              group_name : GroupLabels(MinGroups) \cup {NoGroup},
                              position_in_group : {NullPos}]]
  /\ pointsEntries = [i \in 1..Cardinality(teams) |-> EntryOf(i, store[i])]
  /\ numberOfGroups = MinGroups
  /\ GhostInit
  /\ pointsDisplayMode = "grouped"
  /\ NoViewer
  /\ NoDialog

NextRegroup ==
  \/ AutoCalculatePositions
  \/ \E t \in DOMAIN store, g \in LabelInputs(numberOfGroups) :
       ManuallyAssignTeamToGroup(t, g)

SpecRegroup == InitRegroup /\ [][NextRegroup]_vars

\* ------------------------------------ auto-assignment over drawn entries
PriorLabels == {NoGroup, "Group B"}

InitAssign ==
  /\ supportsGrouping = TRUE
  /\ \E n \in 0..MaxAssign :
       /\ teams = 1..n
       /\ store \in [1..n -> [points : {0}, kills : {0}, wins : {0},
                              position : {DefaultPosition},
                              group_name : PriorLabels,
                              position_in_group : {NullPos}]]
  /\ pointsEntries = [i \in 1..Cardinality(teams) |-> EntryOf(i, store[i])]
  /\ numberOfGroups \in 1..(MaxGroups + 1)
  /\ GhostInit
  /\ pointsDisplayMode = "grouped"
  /\ NoViewer
  /\ NoDialog

NextAssign == AutoAssignGroups

SpecAssign == InitAssign /\ [][NextAssign]_vars


\* --------------------------------------- every handler over drawn entries
\* What the admin types into the points field of the edit form (a text
\* field; min="0" is a hint the handler does not enforce).
EditedPoints == {-1, 0, 1}

\* The list as loaded for a tournament whose rows were entered and grouped
\* but never ranked; kills and wins at the column default.
InitOps ==
  /\ supportsGrouping \in BOOLEAN
  /\ \E n \in 0..MaxOps :
       /\ teams = 1..n
       /\ store \in [1..n -> [points : Counters, kills : {0}, wins : {0},
                              position : {DefaultPosition},
                              group_name : IF supportsGrouping THEN InputLabels ELSE {NoGroup},
                              position_in_group : {NullPos}]]
  /\ pointsEntries = [i \in 1..Cardinality(teams) |-> EntryOf(i, store[i])]
  /\ numberOfGroups = MinGroups
  /\ GhostInit
  /\ pointsDisplayMode = "grouped"
  /\ NoViewer
  /\ NoDialog

\* The edit form as startEdit filled it, the points retyped.
NextOps ==
  \/ \E i \in 1..Len(pointsEntries), p \in EditedPoints :
       SaveEdit(i, p, pointsEntries[i].kills, pointsEntries[i].wins,
                pointsEntries[i].position, pointsEntries[i].group_name)
  \/ AutoCalculatePositions
  \/ AutoAssignGroups
  \/ \E t \in DOMAIN store, g \in LabelInputs(numberOfGroups) :
       ManuallyAssignTeamToGroup(t, g)

SpecOps == InitOps /\ [][NextOps]_vars


\* ------------------------------------------ the viewer over drawn entries
\* The rows of a tournament that was entered, grouped and ranked, the admin
\* component closed, the display mode column at any of its values, and no
\* viewer on screen yet.
InitViewer ==
  /\ supportsGrouping \in BOOLEAN
  /\ \E n \in 0..MaxView :
       /\ teams = 1..n
       /\ \E raw \in [1..n -> [points : {0}, kills : {0}, wins : {0},
                               position : {DefaultPosition},
                               group_name : IF supportsGrouping THEN InputLabels
                                            ELSE {NoGroup},
                               position_in_group : {NullPos}]] :
            store = Upsert(raw,
                           CalcUpdates([i \in 1..n |-> EntryOf(i, raw[i])],
                                       supportsGrouping),
                           CalcColumns(supportsGrouping))
  /\ pointsEntries = <<>>
  /\ numberOfGroups = DefaultNumberOfGroups
  /\ GhostInit
  /\ pointsDisplayMode \in DisplayModes \cup {NoMode}
  /\ NoViewer
  /\ NoDialog

RemoteGroups(row) ==
  IF supportsGrouping THEN InputLabels ELSE {row.group_name}

\* One viewer on the tournament, from mount to unmount.
NextViewer ==
  \/ \E size \in TeamSizes : Mount(1, size)
  \/ Unmount
  \/ DeliverNote
  \/ \E l \in 1..MaxLoads : AnswerLoad(l)
  \/ \E l \in 1..MaxLoads : FinishLoad(l)
  \/ FinishModeLoad(1)
  \/ \E id \in DOMAIN store :
       \E g \in RemoteGroups(store[id]) : RemoteEdit(id, store[id].points, g)

SpecViewer == InitViewer /\ [][NextViewer]_vars

\* --------------------------------- the viewer moving between tournaments
Tournaments == {1, 2}

\* A duo tournament with one team, its row as the admin's loadPointsTable
\* created it, and no viewer on screen yet.
InitChannel ==
  /\ supportsGrouping = FALSE
  /\ teams = {1}
  /\ store = InsertMissing(EmptyStore, <<1>>)
  /\ pointsEntries = <<>>
  /\ numberOfGroups = DefaultNumberOfGroups
  /\ GhostInit
  /\ pointsDisplayMode = "grouped"
  /\ NoViewer
  /\ NoDialog

NextChannel ==
  \/ \E t \in Tournaments, size \in TeamSizes : Mount(t, size)
  \/ \E t \in Tournaments, size \in TeamSizes : ChangeTournament(t, size)
  \/ Unmount
  \/ DeliverNote
  \/ OtherTournamentChange
  \/ \E l \in 1..MaxLoads : AnswerLoad(l)
  \/ \E l \in 1..MaxLoads : FinishLoad(l)
  \/ \E t \in Tournaments : FinishModeLoad(t)
  \/ \E id \in DOMAIN store : RemoteEdit(id, 1, store[id].group_name)

SpecChannel == InitChannel /\ [][NextChannel]_vars

\* A request that was sent is answered, by data or by an error, and the
\* promise of an answered request is resumed.
LoadsProgress ==
  \A l \in 1..MaxLoads : WF_vars(AnswerLoad(l)) /\ WF_vars(FinishLoad(l))

SpecChannelLive == SpecChannel /\ LoadsProgress


\* ---------------------------------- ranking and viewing the example lists
\* (points, kills, wins) of the entries A, B and C, with ids 1, 2 and 3.
ExampleTuples ==
  <<[points |-> 10, kills |-> 2, wins |-> 1],
    [points |-> 10, kills |-> 3, wins |-> 0],
    [points |-> 5, kills |-> 9, wins |-> 9]>>

\* The group names of the four entries with ids 1 to 4.
ExampleGroups == <<"X", "X", "Y", "Y">>

FreshRow(p, k, w, g) ==
  [points |-> p, kills |-> k, wins |-> w, position |-> DefaultPosition,
   group_name |-> g, position_in_group |-> NullPos]

\* Rows that all carry the column default of position come back from
\* order('position') in any order.
ExampleStores ==
  {[i \in 1..3 |-> FreshRow(ExampleTuples[i].points, ExampleTuples[i].kills,
                            ExampleTuples[i].wins, NoGroup)]}
  \cup {[i \in 1..4 |-> FreshRow(p[i], 0, 0, ExampleGroups[i])] :
          p \in [1..4 -> Counters]}
  \cup {[i \in 1..3 |-> FreshRow(p[i], 0, 0, g[i])] :
          p \in [1..3 -> Counters], g \in [1..3 -> {NoGroup, "Group A"}]}

InitExamples ==
  /\ store \in ExampleStores
  /\ teams = DOMAIN store
  /\ supportsGrouping \in
       IF \E id \in DOMAIN store : store[id].group_name # NoGroup
       THEN {TRUE} ELSE BOOLEAN
  /\ pointsEntries \in OrderedByPosition(store)
  /\ numberOfGroups = DefaultNumberOfGroups
  /\ GhostInit
  /\ pointsDisplayMode = "grouped"
  /\ NoViewer
  /\ NoDialog

\* The admin recalculates; a viewer mounts on the tournament and loads.
NextExamples ==
  \/ AutoCalculatePositions
  \/ \E size \in TeamSizes : Mount(1, size)
  \/ \E l \in 1..MaxLoads : AnswerLoad(l)
  \/ \E l \in 1..MaxLoads : FinishLoad(l)
  \/ FinishModeLoad(1)

SpecExamples == InitExamples /\ [][NextExamples]_vars


\* ------------------------------------------- loading over drawn tournaments
\* Rows some of the teams already have: any counters, any position up to
\* the number of teams, no group.
LoadRows ==
  [points : Counters, kills : {0}, wins : Counters, position : 1..MaxTeams,
   group_name : {NoGroup}, position_in_group : {NullPos}]

\* The component selects a tournament: some teams have entered, some of
\* them have a points row, and nothing is loaded yet.
InitLoad ==
  /\ supportsGrouping = FALSE
  /\ \E n \in 0..MaxTeams :
       /\ teams = 1..n
       /\ \E have \in SUBSET (1..n) : store \in [have -> LoadRows]
  /\ pointsEntries = <<>>
  /\ numberOfGroups = DefaultNumberOfGroups
  /\ GhostInit
  /\ pointsDisplayMode = "grouped"
  /\ NoViewer
  /\ NoDialog

NextLoad ==
  \/ RegisterTeam
  \/ LoadPointsTable

SpecLoad == InitLoad /\ [][NextLoad]_vars


\* ------------------------------------- two admin sessions on one tournament
\* This session has loaded its list; another session saves edits of the
\* points of single rows while this one recalculates and assigns groups.
NextStale ==
  \/ \E id \in DOMAIN store, p \in Counters :
       RemoteEdit(id, p, store[id].group_name)
  \/ AutoCalculatePositions
  \/ AutoAssignGroups

SpecStale == InitOps /\ [][NextStale]_vars


\* -------------------------------- ranking in the admin tool, then viewing
\* A grouping tournament whose entries tie on points and kills and tie or
\* differ on wins, loaded by the admin component and never ranked.
InitAgree ==
  /\ supportsGrouping = TRUE
  /\ \E n \in 0..MaxEntries :
       /\ teams = 1..n
       /\ store \in [1..n -> [points : {0}, kills : {0}, wins : Counters,
                              position : {DefaultPosition},
                              group_name : InputLabels,
                              position_in_group : {NullPos}]]
  /\ pointsEntries \in OrderedByPosition(store)
  /\ numberOfGroups = DefaultNumberOfGroups
  /\ GhostInit
  /\ pointsDisplayMode = "grouped"
  /\ NoViewer
  /\ NoDialog

SpecAgree == InitAgree /\ [][NextExamples]_vars


\* ================================================================ claims
CalcDone == op.name = "calc" /\ op.result = "ok"

InputIds == Ids(before.entries)

PositionsOf(ids) == {store[id].position : id \in ids}

GroupOf(key) == {id \in DOMAIN store : GroupKey(store[id]) = key}

StoreKeys == {GroupKey(store[id]) : id \in DOMAIN store}

\* C1: after a successful autoCalculatePositions over N entries the stored
\* overall positions of those entries are pairwise different and are
\* exactly 1..N, with and without grouping support.
C1_OverallPositionsArePermutation ==
  CalcDone =>
    /\ PositionsOf(InputIds) = 1..Len(before.entries)
    /\ \A a, b \in InputIds : store[a].position = store[b].position => a = b

C1_Witness ==
  /\ CalcDone
  /\ supportsGrouping
  /\ Len(before.entries) >= 2
  /\ \E a, b \in InputIds : GroupKey(store[a]) # GroupKey(store[b])

\* C2: after a successful autoCalculatePositions of a grouping tournament
\* the position_in_group values of every group of size M (no label counted
\* as 'Ungrouped') are pairwise different and are exactly 1..M.
C2_GroupPositionsArePermutation ==
  (CalcDone /\ supportsGrouping) =>
    \A key \in StoreKeys :
      /\ {store[id].position_in_group : id \in GroupOf(key)} = 1..Cardinality(GroupOf(key))
      /\ \A a, b \in GroupOf(key) :
           store[a].position_in_group = store[b].position_in_group => a = b

C2_Witness ==
  /\ CalcDone
  /\ supportsGrouping
  /\ \E key \in StoreKeys :
       /\ key # "Ungrouped"
       /\ Cardinality(GroupOf(key)) >= 2

Outranks(a, b) ==
  \/ a.points > b.points
  \/ a.points = b.points /\ a.kills > b.kills

\* C3: after a recalculation an entry with more points, or equal points and
\* more kills, has the smaller overall position, and in a grouping
\* tournament also the smaller position_in_group among entries of its group.
C3_PointsThenKillsOrder ==
  CalcDone =>
    \A a, b \in InputIds :
      Outranks(store[a], store[b]) =>
        /\ store[a].position < store[b].position
        /\ (supportsGrouping /\ GroupKey(store[a]) = GroupKey(store[b]))
             => store[a].position_in_group < store[b].position_in_group

C3_Witness ==
  /\ CalcDone
  /\ supportsGrouping
  /\ \E a, b \in InputIds :
       /\ a > b
       /\ store[a].points = store[b].points
       /\ store[a].kills > store[b].kills
       /\ GroupKey(store[a]) = GroupKey(store[b])

\* C4: after a recalculation, of two entries with equal points and equal
\* kills the one with more wins has the smaller overall position.
C4_WinsBreakTies ==
  CalcDone =>
    \A a, b \in InputIds :
      (/\ store[a].points = store[b].points
       /\ store[a].kills = store[b].kills
       /\ store[a].wins > store[b].wins)
        => store[a].position < store[b].position

SameTuple(a, b) ==
  a.points = b.points /\ a.kills = b.kills /\ a.wins = b.wins

\* C5: the ranking is stable: two entries with equal (points, kills, wins)
\* keep the order of the input list in the overall positions and, inside
\* one group of a grouping tournament, in position_in_group.
C5_StableRanking ==
  CalcDone =>
    \A i, j \in 1..Len(before.entries) :
      (i < j /\ SameTuple(before.entries[i], before.entries[j])) =>
        /\ store[before.entries[i].id].position < store[before.entries[j].id].position
        /\ (supportsGrouping
            /\ GroupKey(before.entries[i]) = GroupKey(before.entries[j]))
             => store[before.entries[i].id].position_in_group
                  < store[before.entries[j].id].position_in_group

C5_Witness ==
  /\ CalcDone
  /\ supportsGrouping
  /\ \E i, j \in 1..Len(before.entries) :
       /\ i < j
       /\ SameTuple(before.entries[i], before.entries[j])
       /\ GroupKey(before.entries[i]) = GroupKey(before.entries[j])
       /\ before.entries[i].points > 0

\* C6: a second autoCalculatePositions right after a successful one, on the
\* list the first one reloaded, leaves every position and position_in_group
\* as the first run stored them.
C6_RecalculationIdempotent ==
  phase = "reranked" =>
    \A id \in DOMAIN before.store :
      /\ store[id].position = before.store[id].position
      /\ store[id].position_in_group = before.store[id].position_in_group

C6_Witness ==
  /\ phase = "reranked"
  /\ supportsGrouping
  /\ \E a, b \in DOMAIN store :
       /\ a # b
       /\ store[a].points = store[b].points
       /\ store[a].kills = store[b].kills
       /\ store[a].wins # store[b].wins
       /\ GroupKey(store[a]) = GroupKey(store[b])

\* C7: moving one entry to another group after a recalculation and
\* recalculating again changes no overall position, and changes
\* position_in_group only in the group the entry left and the one it joined.
C7_RegroupKeepsOverallRank ==
  phase = "regrouped" =>
    \A id \in DOMAIN base :
      /\ store[id].position = base[id].position
      /\ store[id].position_in_group # base[id].position_in_group
           => GroupKey(base[id]) \in {moved.from, moved.to}

C7_Witness ==
  /\ phase = "regrouped"
  /\ moved.from # moved.to
  /\ \E id \in DOMAIN base :
       /\ id # moved.id
       /\ store[id].position_in_group # base[id].position_in_group
  /\ \E id \in DOMAIN base : GroupKey(base[id]) \notin {moved.from, moved.to}

Permute(list, q) == [i \in 1..Len(list) |-> list[q[i]]]

\* Lists with the ids and (points, kills, wins, group_name) of list, in any
\* order, with the stored positions as they are, renumbered by list index
\* or renumbered against it, and no stored position_in_group.
Variants(list) ==
  LET n == Len(list)
      perms == {Permute(list, q) : q \in Orderings(1..n)}
  IN  perms
      \cup {[i \in 1..n |-> [l[i] EXCEPT !.position = i, !.position_in_group = NullPos]] : l \in perms}
      \cup {[i \in 1..n |-> [l[i] EXCEPT !.position = n + 1 - i, !.position_in_group = NullPos]] : l \in perms}

\* The recalculation of list assigns what the store holds.
AssignsStored(list) ==
  LET u == CalcUpdates(list, supportsGrouping)
  IN  \A i \in 1..Len(u) :
        /\ u[i].position = store[u[i].id].position
        /\ supportsGrouping => u[i].position_in_group = store[u[i].id].position_in_group

\* Entries with equal points and equal kills come in the same order in both.
SameTieOrder(l1, l2) ==
  \A i, j \in 1..Len(l1) :
    (i < j /\ l1[i].points = l1[j].points /\ l1[i].kills = l1[j].kills)
      => FindIndex(l2, l1[i].id) < FindIndex(l2, l1[j].id)

\* C8 as claimed: a recalculation of a list with the same ids and values,
\* in whatever order and with whatever stored positions, assigns every
\* entry the same position and position_in_group.
C8_RankIgnoresListOrder ==
  CalcDone => \A l \in Variants(before.entries) : AssignsStored(l)

\* C8 as amended: it does so when the entries with equal points and equal
\* kills come in the same relative order in both lists.
C8_RankIgnoresStoredPositions ==
  CalcDone =>
    \A l \in Variants(before.entries) :
      SameTieOrder(before.entries, l) => AssignsStored(l)

C8_Witness ==
  /\ CalcDone
  /\ supportsGrouping
  /\ Len(before.entries) >= 2
  /\ \E l \in Variants(before.entries) :
       /\ SameTieOrder(before.entries, l)
       /\ \E i \in 1..Len(l) : l[i].id # before.entries[i].id
       /\ \E i \in 1..Len(l) : l[i].position # before.entries[i].position

\* C9: in every state of the admin session the overall positions of the
\* tournament's N entries are pairwise different and are exactly 1..N.
C9_PositionsAlwaysPermutation ==
  /\ PositionsOf(DOMAIN store) = 1..Cardinality(DOMAIN store)
  /\ \A a, b \in DOMAIN store : store[a].position = store[b].position => a = b

RoundRobin(index, n) == "Group " \o Letters[(index % n) + 1]

\* C10: a successful autoAssignGroups with a group count G in 2..8 labels
\* the entry at list index i 'Group ' + letter (i mod G), whatever label it
\* had, in the list and in the store; 7 entries and G = 3 get
\* A,B,C,A,B,C,A.
C10_RoundRobinLabels ==
  (op.name = "assign" /\ op.result = "ok"
   /\ numberOfGroups >= MinGroups /\ numberOfGroups <= MaxGroups) =>
    /\ Len(pointsEntries) = Len(before.entries)
    /\ \A i \in 1..Len(pointsEntries) :
         /\ pointsEntries[i].id = before.entries[i].id
         /\ pointsEntries[i].group_name = RoundRobin(i - 1, numberOfGroups)
         /\ store[pointsEntries[i].id].group_name = RoundRobin(i - 1, numberOfGroups)
    /\ (numberOfGroups = 3 /\ Len(pointsEntries) = 7) =>
         [i \in 1..7 |-> pointsEntries[i].group_name]
           = <<"Group A", "Group B", "Group C", "Group A", "Group B", "Group C", "Group A">>

C10_Witness ==
  /\ op.name = "assign" /\ op.result = "ok"
  /\ numberOfGroups = 3
  /\ Len(pointsEntries) = 7
  /\ \E i \in 1..7 : before.entries[i].group_name \notin {NoGroup, pointsEntries[i].group_name}
  /\ Cardinality({i \in 1..7 : pointsEntries[i].group_name = "Group A"}) = 3
  /\ Cardinality({i \in 1..7 : pointsEntries[i].group_name = "Group B"}) = 2
  /\ Cardinality({i \in 1..7 : pointsEntries[i].group_name = "Group C"}) = 2

\* C11: an autoAssignGroups with a group count below 2 or above 8 is
\* rejected: it does not end in success, writes no row and labels no entry.
C11_GroupCountOutsideRangeRejected ==
  (op.name = "assign" /\ (numberOfGroups < MinGroups \/ numberOfGroups > MaxGroups)) =>
    /\ op.result # "ok"
    /\ store = before.store
    /\ pointsEntries = before.entries

\* C12: no row of the store and no entry of the list ever carries a negative
\* points, kills or wins: an edit or a recalculation with one is rejected.
C12_NoNegativeCounterStored ==
  /\ \A id \in DOMAIN store :
       store[id].points >= 0 /\ store[id].kills >= 0 /\ store[id].wins >= 0
  /\ \A i \in 1..Len(pointsEntries) :
       pointsEntries[i].points >= 0 /\ pointsEntries[i].kills >= 0
         /\ pointsEntries[i].wins >= 0

\* C13: autoCalculatePositions and autoAssignGroups called with an empty
\* list of points entries return at once: no store call, so no error and
\* no write, and the list stays empty.
C13_EmptyInputIsNoOp ==
  (op.name \in {"calc", "assign"} /\ before.entries = <<>>) =>
    /\ op.result = "noop"
    /\ store = before.store
    /\ pointsEntries = <<>>

C13_Witness ==
  /\ op.name = "assign"
  /\ op.result = "noop"
  /\ before.entries = <<>>
  /\ pointsEntries = <<>>

\* C14: when the store write of saveEdit, autoCalculatePositions,
\* autoAssignGroups or manuallyAssignTeamToGroup fails, the handler ends in
\* its error report with the list of points entries, and the store, exactly
\* as they were when it started.
C14_FailedWriteLeavesListUntouched ==
  (op.name \in {"edit", "calc", "assign", "manual"} /\ op.result = "error") =>
    /\ pointsEntries = before.entries
    /\ store = before.store

C14_Witness ==
  /\ op.name = "edit"
  /\ op.result = "error"
  /\ Len(pointsEntries) >= 2
  /\ \E i \in 1..Len(pointsEntries) : pointsEntries[i].position_in_group # NullPos
  /\ \E i \in 1..Len(pointsEntries) : pointsEntries[i].group_name # NoGroup

\* The two rows agree on everything but the group label.
SameButGroup(a, b) == a = [b EXCEPT !.group_name = a.group_name]

\* C15: a successful manuallyAssignTeamToGroup changes the group_name of the
\* selected entry and nothing else: every other entry, and the position and
\* position_in_group of the selected one, are as before in the store and in
\* the list, whose order is kept.
C15_ManualAssignSetsOnlyGroupName ==
  (op.name = "manual" /\ op.result = "ok") =>
    \E t \in DOMAIN before.store :
      /\ DOMAIN store = DOMAIN before.store
      /\ \A id \in DOMAIN store :
           IF id = t THEN SameButGroup(store[id], before.store[id])
           ELSE store[id] = before.store[id]
      /\ Len(pointsEntries) = Len(before.entries)
      /\ \A i \in 1..Len(pointsEntries) :
           IF before.entries[i].id = t
           THEN SameButGroup(pointsEntries[i], before.entries[i])
           ELSE pointsEntries[i] = before.entries[i]

C15_Witness ==
  /\ op.name = "manual" /\ op.result = "ok"
  /\ phase = "moved"
  /\ moved.from # moved.to
  /\ store[moved.id].group_name = moved.to
  /\ \E id \in DOMAIN store :
       /\ id # moved.id
       /\ store[id].group_name = moved.to
       /\ store[id].position_in_group = store[moved.id].position_in_group

IsRankingExample ==
  /\ DOMAIN store = 1..3
  /\ \A i \in 1..3 :
       [points |-> store[i].points, kills |-> store[i].kills, wins |-> store[i].wins]
         = ExampleTuples[i]

\* C16: recalculating the entries A(10, 2, 1), B(10, 3, 0) and C(5, 9, 9),
\* in whatever order the list holds them, stores position 1 for B, 2 for A
\* and 3 for C.
C16_ExampleRanking ==
  (CalcDone /\ IsRankingExample) =>
    /\ store[2].position = 1
    /\ store[1].position = 2
    /\ store[3].position = 3

C16_Witness ==
  /\ CalcDone
  /\ IsRankingExample
  /\ [i \in 1..3 |-> before.entries[i].id] = <<3, 1, 2>>
  /\ store[2].position = 1

IsGroupExample ==
  /\ DOMAIN store = 1..4
  /\ \A i \in 1..4 : store[i].group_name = ExampleGroups[i]

CardIds(card) == {card.rows[i].id : i \in 1..Len(card.rows)}

CardShown(card) == [i \in 1..Len(card.rows) |-> card.rows[i].shown]

\* C17: of four entries with the group names X, X, Y, Y a recalculation
\* stores position_in_group 1 and 2 in each group, and the viewer shows two
\* group cards, X before Y, each with its two entries at positions 1 and 2.
C17_ExampleGroups ==
  IsGroupExample =>
    /\ CalcDone =>
         /\ {store[1].position_in_group, store[2].position_in_group} = {1, 2}
         /\ {store[3].position_in_group, store[4].position_in_group} = {1, 2}
    /\ View.kind = "grouped" =>
         /\ [k \in 1..Len(View.groups) |-> View.groups[k].name] = <<"X", "Y">>
         /\ CardIds(View.groups[1]) = {1, 2}
         /\ CardIds(View.groups[2]) = {3, 4}
         /\ CardShown(View.groups[1]) = <<1, 2>>
         /\ CardShown(View.groups[2]) = <<1, 2>>

C17_Witness ==
  /\ IsGroupExample
  /\ CalcDone
  /\ View.kind = "grouped"
  /\ store[2].points > store[1].points
  /\ store[2].position_in_group = 1
  /\ View.groups[1].rows[1].id = 2

UnlabelledStored == {id \in DOMAIN store : store[id].group_name = NoGroup}

UnlabelledViewed ==
  {vEntries[i].id : i \in {j \in 1..Len(vEntries) : vEntries[j].group_name = NoGroup}}

UngroupedCards == {k \in 1..Len(View.groups) : View.groups[k].name = "Ungrouped"}

\* C18: the entries without group name form one partition, 'Ungrouped': a
\* recalculation of a grouping tournament stores position_in_group 1..K
\* among the K of them, and the viewer's group cards hold them all in the
\* one card of that name, at positions 1..K, and in no other card.
C18_UngroupedPartition ==
  /\ (CalcDone /\ supportsGrouping) =>
       /\ {store[id].position_in_group : id \in UnlabelledStored}
            = 1..Cardinality(UnlabelledStored)
       /\ \A a, b \in UnlabelledStored :
            store[a].position_in_group = store[b].position_in_group => a = b
  /\ View.kind = "grouped" =>
       /\ Cardinality(UngroupedCards) = IF UnlabelledViewed = {} THEN 0 ELSE 1
       /\ \A k \in 1..Len(View.groups) :
            IF k \in UngroupedCards
            THEN /\ CardIds(View.groups[k]) = UnlabelledViewed
                 /\ CardShown(View.groups[k])
                      = [i \in 1..Cardinality(UnlabelledViewed) |-> i]
            ELSE CardIds(View.groups[k]) \cap UnlabelledViewed = {}

C18_Witness ==
  /\ CalcDone
  /\ supportsGrouping
  /\ View.kind = "grouped"
  /\ Cardinality(UnlabelledStored) = 2
  /\ UnlabelledViewed = UnlabelledStored
  /\ Len(View.groups) = 2

\* The condition the grouped display is claimed to depend on.
GroupedCondition ==
  /\ ViewerSupportsGrouping(vTeamSize)
  /\ vDisplayMode = "grouped"
  /\ \E i \in 1..Len(vEntries) : vEntries[i].group_name # NoGroup

\* C19 as claimed: a viewer of a team tournament shows the group cards
\* exactly when the tournament supports grouping, the display mode is
\* 'grouped' and an entry has a group name, and the single table otherwise.
C19_GroupedExactlyWhen ==
  IsTeamTournament(vTeamSize) =>
    View.kind = IF GroupedCondition THEN "grouped" ELSE "single"

\* C19 as amended: it does so once it is not loading and has at least one
\* entry; and with no mode stored its display mode is 'grouped'.
C19_GroupedWhenLoaded ==
  /\ (IsTeamTournament(vTeamSize) /\ ~vLoading /\ Len(vEntries) > 0) =>
       View.kind = IF GroupedCondition THEN "grouped" ELSE "single"
  /\ (IsTeamTournament(vTeamSize) /\ pointsDisplayMode = NoMode) =>
       vDisplayMode = "grouped"

C19_Witness ==
  /\ View.kind = "single"
  /\ ViewerSupportsGrouping(vTeamSize)
  /\ vDisplayMode = "grouped"
  /\ pointsDisplayMode = NoMode
  /\ vModeLoads = {}
  /\ Len(vEntries) > 0
  /\ \E l \in 1..Len(vLoads) : vLoads[l].by = "channel" /\ vLoads[l].state = "done"

\* C20: while the channel of the tournament is subscribed every delivered
\* notification starts a new loadPointsTable, with no channel of the
\* tournament a notification starts none, the channel is never one of a
\* tournament the viewer has left, every started load ends, and with the
\* viewer still mounted its last step sets loading to false.
C20_NotificationsReload ==
  /\ [][(notes' = notes - 1 /\ vChannel = 1) =>
          /\ Len(vLoads') = Len(vLoads) + 1
          /\ vLoads'[Len(vLoads')] = NewLoad(1, vTeamSize, "channel")
          /\ vLoading']_vars
  /\ [][(notes' = notes - 1 /\ vChannel # 1) => vLoads' = vLoads]_vars
  /\ [](vChannel \in {0, vTournament})
  /\ [][\A l \in 1..Len(vLoads) :
          (vLoads[l].state # "done" /\ vLoads'[l].state = "done" /\ vTournament # 0)
            => ~vLoading']_vars
  /\ \A l \in 1..MaxLoads :
       (Len(vLoads) >= l) ~> (Len(vLoads) >= l /\ vLoads[l].state = "done")

C20_Witness ==
  /\ vTournament = 1
  /\ vChannel = 1
  /\ ~vLoading
  /\ Len(vLoads) = 2
  /\ vLoads[2].by = "channel"
  /\ vLoads[2].state = "done"
  /\ vLoads[1].state = "done"

LoadDone == op.name = "load" /\ op.result = "ok" /\ teams # {}

CreatedByLoad == DOMAIN store \ DOMAIN before.store

\* C21: after a successful loadPointsTable of a tournament with at least one
\* team every team has exactly one points entry, in the store and in the
\* list; the entries the load created have points = kills = wins = 0 and the
\* positions K+1, K+2, ... behind the K entries that existed, and the
\* entries that existed are as they were.
C21_LoadCreatesMissingEntries ==
  LoadDone =>
    LET K == Cardinality(DOMAIN before.store)
    IN  /\ teams \subseteq DOMAIN store
        /\ \A t \in teams :
             Cardinality({i \in 1..Len(pointsEntries) : pointsEntries[i].id = t}) = 1
        /\ \A i \in 1..Len(pointsEntries) :
             RowOf(pointsEntries[i]) = store[pointsEntries[i].id]
        /\ \A id \in DOMAIN before.store : store[id] = before.store[id]
        /\ \A id \in CreatedByLoad :
             /\ store[id].points = 0
             /\ store[id].kills = 0
             /\ store[id].wins = 0
        /\ {store[id].position : id \in CreatedByLoad}
             = (K + 1)..(K + Cardinality(CreatedByLoad))
        /\ \A a, b \in CreatedByLoad : store[a].position = store[b].position => a = b

C21_Witness ==
  /\ LoadDone
  /\ Cardinality(DOMAIN before.store) >= 1
  /\ CreatedByLoad # {}
  /\ \E id \in DOMAIN before.store : store[id].points # 0

\* C22: in a paid tournament handleCreateTeam and handleJoinTeam take the
\* wallet payment only after the balance check passed, and no run that took
\* the payment ends with the user neither captain of a team nor member of
\* one.
C22_NoPaymentWithoutRegistration ==
  /\ lastRun.paid => (~IsFree(entry_fee) /\ lastRun.checked)
  /\ (lastRun.handler # "none" /\ lastRun.paid) => membership # "none"

\* C23: after any inserts and status updates of wallet_transactions the
\* user's wallet_balances row is the one the recalculation block computes:
\* available_balance = approved deposits - approved withdrawals,
\* pending_balance = pending deposits, total_deposited = approved deposits,
\* total_withdrawn = approved withdrawals.
C23_BalanceMatchesLedger ==
  \A u \in DOMAIN wallet_balances :
    wallet_balances[u] = Recalculated(wallet_transactions)

\* C24: a successful autoCalculatePositions or autoAssignGroups leaves the
\* stored points, kills and wins of every entry at the values the store held
\* when the handler started, whatever another admin session stored after
\* this session loaded its list.
C24_CountersNotOverwritten ==
  (op.name \in {"calc", "assign"} /\ op.result = "ok") =>
    \A id \in DOMAIN before.store :
      /\ store[id].points = before.store[id].points
      /\ store[id].kills = before.store[id].kills
      /\ store[id].wins = before.store[id].wins

\* Nothing is on its way to the mounted viewer: no notification waits and
\* every loadPointsTable call has returned.
ViewerQuiet ==
  /\ vTournament = 1
  /\ notes = 0
  /\ vLoads # <<>>
  /\ \A l \in 1..Len(vLoads) : vLoads[l].state = "done"

\* What a load of the store as it is now would display.
LatestSnapshots ==
  {ViewerSorted(d, vTeamSize) : d \in ViewerFetched(store, vTeamSize)}

\* C25: once the notifications have stopped and every loadPointsTable call
\* has completed, the entries the viewer displays are the store's latest
\* snapshot, in whatever order the responses arrived; an older snapshot is
\* never left on display.
C25_ViewerShowsLatest ==
  (ViewerQuiet /\ vEntries # <<>>) => vEntries \in LatestSnapshots

\* C26: right after a successful autoCalculatePositions, the position in
\* group that PointsTable computes and shows for an entry of the recalculated
\* store is the position_in_group the recalculation stored for it.
C26_ViewerAgreesWithAdmin ==
  (CalcDone /\ vTournament = 1 /\ View.kind = "grouped"
     /\ vEntries \in LatestSnapshots) =>
    \A c \in 1..Len(View.groups) :
      \A i \in 1..Len(View.groups[c].rows) :
        View.groups[c].rows[i].shown
          = store[View.groups[c].rows[i].id].position_in_group

====
